---- MODULE Spec2Model ----
(***************************************************************************)
(* Host-side model of blackhole-wgpu (src/main.rs): the orbit camera      *)
(* controller driven by window input events, and the GPU state (surface   *)
(* configuration, storage texture, bind groups, camera uniform buffer)    *)
(* driven by resize and redraw events.                                    *)
(*                                                                         *)
(* Fixed-point scales: angles (yaw, pitch) in units of 1e-5 rad; radius   *)
(* in units of 1e-3; zoom factors in units of 1/5000; scroll amounts in  *)
(* units of 1/500 line (exact for line and whole-pixel deltas).          *)
(***************************************************************************)
EXTENDS Integers, Sequences, FiniteSets, TLC

\* ---------------------------------------------------------------------
\* Program constants
\* ---------------------------------------------------------------------

\* sensitivity = 0.005 rad per pixel, in 1e-5 rad units
Sensitivity == 500
\* limit = 0.995 * (PI / 2) = 1.5629423 rad, in 1e-5 rad units
Limit == 156294
\* CameraCtrl::new: yaw 0.6, pitch 0.3, radius 4.0
InitYaw == 60000
InitPitch == 30000
InitRadius == 4000
\* radius clamp (1.0, 50.0) in 1e-3 units
MinRadius == 1000
MaxRadius == 50000
\* zoom factor clamp (0.2, 5.0) in units of 1/5000
MinFactor == 1000
MaxFactor == 25000
\* compute workgroup size 8x8 (trace.wgsl)
WorkgroupSize == 8

\* ---------------------------------------------------------------------
\* Bounds of the model
\* ---------------------------------------------------------------------

\* largest |yaw| reachable by drags (yaw itself is an unbounded f32)
MaxYaw == 110000
\* number of storage textures the model may create (each resize makes one)
MaxGen == 2

\* inputs of the full program (Spec)
CursorPositions == {<<0, 0>>, <<100, 0>>}
ScrollInputs == {[kind |-> "Line", y |-> -50]}
ResizeInputs == {<<0, 9>>, <<9, 8>>, <<1, 1>>, <<8, 0>>}
InitWindowSizes == {<<0, 0>>, <<8, 8>>}
AcquireResults == {"Ok", "Lost", "OutOfMemory", "Timeout"}
\* inputs of the controller alone (SpecCamera)
CamCursorPositions == {<<0, 0>>, <<100, 0>>, <<0, 40>>, <<100, 400>>}
CamScrollInputs == {[kind |-> "Line", y |-> 1]}
\* inputs of the zoom (SpecZoom): line and pixel deltas of both signs,
\* hitting both clamps of the factor
ZoomCursorPositions == {<<0, 0>>}
ZoomScrollInputs ==
    {[kind |-> "Line", y |-> 1], [kind |-> "Line", y |-> -5],
     [kind |-> "Line", y |-> 10], [kind |-> "Line", y |-> -50],
     [kind |-> "Pixel", y |-> 7], [kind |-> "Pixel", y |-> -2500]}

\* ---------------------------------------------------------------------
\* Helpers
\* ---------------------------------------------------------------------

Max(a, b) == IF a >= b THEN a ELSE b
Min(a, b) == IF a <= b THEN a ELSE b
\* f32::clamp(lo, hi)
Clamp(x, lo, hi) == Max(lo, Min(x, hi))

ClampPitchNoLower(p) == Min(p, Limit)

\* CursorMoved: pitch clamped to [-limit, limit]
ClampPitch(p) == Clamp(p, -Limit, Limit)

\* MouseWheel: scroll amount in units of 1/500 line, exact
\*   LineDelta(_, y) => y ;  PixelDelta(p) => p.y / 50  (= 10 p.y / 500)
ScrollOf(d) == IF d.kind = "Line" THEN d.y * 500 ELSE d.y * 10

ZoomFactorWideClamp(s) == Clamp(5000 - s, MinFactor, 30000)

\* factor = (1.0 - scroll * 0.1).clamp(0.2, 5.0), in units of 1/5000:
\* 5000 * (1 - (s / 500) * 0.1) = 5000 - s
ZoomFactor(s) == Clamp(5000 - s, MinFactor, MaxFactor)

ZoomNoLowerClamp(r, d) == Min((r * ZoomFactor(ScrollOf(d)) + 2500) \div 5000, MaxRadius)

\* radius = (radius * factor).clamp(1.0, 50.0), product rounded to nearest
Zoom(r, d) == Clamp((r * ZoomFactor(ScrollOf(d)) + 2500) \div 5000, MinRadius, MaxRadius)

\* (n + 7) / 8 in u32 arithmetic; sizes are surface/texture extents, at
\* most the device's max_texture_dimension_2d (8192), so n + 7 never wraps
WorkgroupsFor(n) == (n + 7) \div WorkgroupSize

\* update_camera_buffer: the uniform block written from the controller
\* and config (view_inv / proj_inv are functions of yaw, pitch, radius and
\* the aspect of width/height; fov_y is fixed at 60 degrees)
ParamsOf(c, cfg, t) ==
    [yaw |-> c.yaw, pitch |-> c.pitch, radius |-> c.radius,
     width |-> cfg[1], height |-> cfg[2], time |-> t]

None == <<>>

\* ---------------------------------------------------------------------
\* State
\* ---------------------------------------------------------------------

VARIABLES
    ctrl,          \* CameraCtrl {yaw, pitch, radius, dragging, last}
    size,          \* GpuState.size (window size recorded by the host)
    config,        \* GpuState.config width/height
    tex,           \* storage_tex / storage_view: [id, w, h]
    computeBg,     \* id of the texture compute_bg references
    renderBg,      \* id of the texture render_bg references
    params,        \* contents of camera_buf
    gen,           \* number of storage textures created so far
    running,       \* event loop not exited
    frame,         \* last submitted frame: dispatch grid and bindings used
    event          \* last handled event and whether it requested a redraw

vars == <<ctrl, size, config, tex, computeBg, renderBg, params, gen,
          running, frame, event>>

gpuVars == <<size, config, tex, computeBg, renderBg, params, gen>>

\* CameraCtrl::new
InitCtrl == [yaw |-> InitYaw, pitch |-> InitPitch, radius |-> InitRadius,
             dragging |-> FALSE, last |-> None]

\* App::resumed -> GpuState::new(window)
Init ==
    \E ws \in InitWindowSizes :
        /\ ctrl = InitCtrl
        /\ size = ws
        /\ config = <<Max(ws[1], 1), Max(ws[2], 1)>>
        /\ tex = [id |-> 0, w |-> Max(ws[1], 1), h |-> Max(ws[2], 1)]
        /\ computeBg = 0
        /\ renderBg = 0
        /\ params = ParamsOf(InitCtrl, <<Max(ws[1], 1), Max(ws[2], 1)>>, 0)
        /\ gen = 0
        /\ running = TRUE
        /\ frame = None
        /\ event = [kind |-> "Init", arg |-> ws, redraw |-> FALSE]

\* ---------------------------------------------------------------------
\* Actions
\* ---------------------------------------------------------------------

ResizeEffectStaleRender(ns) ==
    IF ns[1] = 0 \/ ns[2] = 0
    THEN UNCHANGED gpuVars
    ELSE /\ gen < MaxGen
         /\ size' = ns
         /\ config' = ns
         /\ gen' = gen + 1
         /\ tex' = [id |-> gen + 1, w |-> ns[1], h |-> ns[2]]
         /\ computeBg' = gen + 1
         /\ renderBg' = renderBg
         /\ params' = ParamsOf(ctrl, ns, 0)

ResizeEffectAndGuard(ns) ==
    IF ns[1] = 0 /\ ns[2] = 0
    THEN UNCHANGED gpuVars
    ELSE /\ gen < MaxGen
         /\ size' = ns
         /\ config' = ns
         /\ gen' = gen + 1
         /\ tex' = [id |-> gen + 1, w |-> ns[1], h |-> ns[2]]
         /\ computeBg' = gen + 1
         /\ renderBg' = gen + 1
         /\ params' = ParamsOf(ctrl, ns, 0)

ResizeEffectNoSize(ns) ==
    IF ns[1] = 0 \/ ns[2] = 0
    THEN UNCHANGED gpuVars
    ELSE /\ gen < MaxGen
         /\ size' = size
         /\ config' = ns
         /\ gen' = gen + 1
         /\ tex' = [id |-> gen + 1, w |-> ns[1], h |-> ns[2]]
         /\ computeBg' = gen + 1
         /\ renderBg' = gen + 1
         /\ params' = ParamsOf(ctrl, ns, 0)

\* GpuState::resize(new_size), as a step on the GPU variables
ResizeEffect(ns) ==
    IF ns[1] = 0 \/ ns[2] = 0
    THEN UNCHANGED gpuVars
    ELSE /\ gen < MaxGen
         /\ size' = ns
         /\ config' = ns
         /\ gen' = gen + 1
         /\ tex' = [id |-> gen + 1, w |-> ns[1], h |-> ns[2]]
         /\ computeBg' = gen + 1
         /\ renderBg' = gen + 1
         /\ params' = ParamsOf(ctrl, ns, 0)

\* WindowEvent::Resized(new_size)
Resized(ns) ==
    /\ running
    /\ ResizeEffect(ns)
    /\ event' = [kind |-> "Resized", arg |-> ns, redraw |-> FALSE]
    /\ UNCHANGED <<ctrl, running, frame>>

MouseInputNoClear(pressed) ==
    /\ running
    /\ ctrl' = [ctrl EXCEPT !.dragging = pressed]
    /\ event' = [kind |-> "MouseInput", arg |-> pressed, redraw |-> FALSE]
    /\ UNCHANGED <<gpuVars, running, frame>>

\* WindowEvent::MouseInput { state, button: MouseButton::Left }
MouseInput(pressed) ==
    /\ running
    /\ ctrl' = [ctrl EXCEPT !.dragging = pressed,
                            !.last = IF pressed THEN ctrl.last ELSE None]
    /\ event' = [kind |-> "MouseInput", arg |-> pressed, redraw |-> FALSE]
    /\ UNCHANGED <<gpuVars, running, frame>>

CursorMovedNoDragCheck(pos) ==
    /\ running
    /\ IF ctrl.last # None
       THEN LET dx == pos[1] - ctrl.last[1]
                dy == pos[2] - ctrl.last[2]
                ny == ctrl.yaw - dx * Sensitivity
            IN /\ ny >= -MaxYaw /\ ny <= MaxYaw
               /\ ctrl' = [ctrl EXCEPT
                             !.yaw = ny,
                             !.pitch = ClampPitch(ctrl.pitch - dy * Sensitivity),
                             !.last = pos]
               /\ event' = [kind |-> "CursorMoved", arg |-> pos, redraw |-> TRUE]
       ELSE /\ ctrl' = [ctrl EXCEPT !.last = pos]
            /\ event' = [kind |-> "CursorMoved", arg |-> pos, redraw |-> FALSE]
    /\ UNCHANGED <<gpuVars, running, frame>>

\* WindowEvent::CursorMoved { position }
CursorMoved(pos) ==
    /\ running
    /\ IF ctrl.dragging
       THEN IF ctrl.last # None
            THEN LET dx == pos[1] - ctrl.last[1]
                     dy == pos[2] - ctrl.last[2]
                     ny == ctrl.yaw - dx * Sensitivity
                 IN /\ ny >= -MaxYaw /\ ny <= MaxYaw
                    /\ ctrl' = [ctrl EXCEPT
                                  !.yaw = ny,
                                  !.pitch = ClampPitch(ctrl.pitch - dy * Sensitivity),
                                  !.last = pos]
                    /\ event' = [kind |-> "CursorMoved", arg |-> pos, redraw |-> TRUE]
            ELSE /\ ctrl' = [ctrl EXCEPT !.last = pos]
                 /\ event' = [kind |-> "CursorMoved", arg |-> pos, redraw |-> FALSE]
       ELSE /\ UNCHANGED ctrl
            /\ event' = [kind |-> "CursorMoved", arg |-> pos, redraw |-> FALSE]
    /\ UNCHANGED <<gpuVars, running, frame>>

\* WindowEvent::MouseWheel { delta }
MouseWheel(d) ==
    /\ running
    /\ ctrl' = [ctrl EXCEPT !.radius = Zoom(ctrl.radius, d)]
    /\ event' = [kind |-> "MouseWheel", arg |-> d, redraw |-> TRUE]
    /\ UNCHANGED <<gpuVars, running, frame>>

\* WindowEvent::CloseRequested
CloseRequested ==
    /\ running
    /\ running' = FALSE
    /\ event' = [kind |-> "CloseRequested", arg |-> None, redraw |-> FALSE]
    /\ UNCHANGED <<ctrl, gpuVars, frame>>

\* the calls GpuState::render makes, in order, for each outcome of
\* surface.get_current_texture(); the `?` returns right after a failed
\* acquisition
RenderOps(res) ==
    IF res = "Ok"
    THEN <<"write_buffer", "get_current_texture", "compute_pass",
           "render_pass", "submit", "present">>
    ELSE <<"write_buffer", "get_current_texture">>

RedrawRequestedLostSkips(res) ==
    /\ running
    /\ event' = [kind |-> "RedrawRequested", arg |-> res, redraw |-> FALSE,
                 ops |-> RenderOps(res)]
    /\ UNCHANGED ctrl
    /\ CASE res = "Ok" ->
              /\ params' = ParamsOf(ctrl, config, 1)
              /\ frame' = [grid |-> <<WorkgroupsFor(size[1]), WorkgroupsFor(size[2]), 1>>,
                           imgW |-> tex.w, imgH |-> tex.h,
                           computeTex |-> computeBg, renderTex |-> renderBg,
                           currentTex |-> tex.id]
              /\ UNCHANGED <<size, config, tex, computeBg, renderBg, gen, running>>
         [] res = "OutOfMemory" ->
              \* elwt.exit()
              /\ params' = ParamsOf(ctrl, config, 1)
              /\ running' = FALSE
              /\ UNCHANGED <<size, config, tex, computeBg, renderBg, gen, frame>>
         [] OTHER ->
              \* eprintln!, frame skipped
              /\ params' = ParamsOf(ctrl, config, 1)
              /\ UNCHANGED <<size, config, tex, computeBg, renderBg, gen, running, frame>>


\* WindowEvent::RedrawRequested (requested by about_to_wait on every loop
\* iteration) -> GpuState::render(surface, t), then the handling of its
\* error. render writes the camera buffer (time t, modelled as 1) before
\* acquiring the surface texture.
RedrawRequested(res) ==
    /\ running
    /\ event' = [kind |-> "RedrawRequested", arg |-> res, redraw |-> FALSE,
                 ops |-> RenderOps(res)]
    /\ UNCHANGED ctrl
    /\ CASE res = "Ok" ->
              /\ params' = ParamsOf(ctrl, config, 1)
              /\ frame' = [grid |-> <<WorkgroupsFor(size[1]), WorkgroupsFor(size[2]), 1>>,
                           imgW |-> tex.w, imgH |-> tex.h,
                           computeTex |-> computeBg, renderTex |-> renderBg,
                           currentTex |-> tex.id]
              /\ UNCHANGED <<size, config, tex, computeBg, renderBg, gen, running>>
         [] res = "Lost" ->
              \* st.resize(surf, st.size)
              /\ IF size[1] = 0 \/ size[2] = 0
                 THEN /\ params' = ParamsOf(ctrl, config, 1)
                      /\ UNCHANGED <<size, config, tex, computeBg, renderBg, gen>>
                 ELSE ResizeEffect(size)
              /\ UNCHANGED <<running, frame>>
         [] res = "OutOfMemory" ->
              \* elwt.exit()
              /\ params' = ParamsOf(ctrl, config, 1)
              /\ running' = FALSE
              /\ UNCHANGED <<size, config, tex, computeBg, renderBg, gen, frame>>
         [] OTHER ->
              \* eprintln!, frame skipped
              /\ params' = ParamsOf(ctrl, config, 1)
              /\ UNCHANGED <<size, config, tex, computeBg, renderBg, gen, running, frame>>

\* ---------------------------------------------------------------------
\* Specifications
\* ---------------------------------------------------------------------

\* the whole program
Next ==
    \/ \E ns \in ResizeInputs : Resized(ns)
    \/ \E b \in BOOLEAN : MouseInput(b)
    \/ \E p \in CursorPositions : CursorMoved(p)
    \/ \E d \in ScrollInputs : MouseWheel(d)
    \/ CloseRequested
    \/ \E r \in AcquireResults : RedrawRequested(r)

Spec == Init /\ [][Next]_vars

\* the camera controller under mouse input alone
NextCamera ==
    \/ \E b \in BOOLEAN : MouseInput(b)
    \/ \E p \in CamCursorPositions : CursorMoved(p)
    \/ \E d \in CamScrollInputs : MouseWheel(d)

SpecCamera == Init /\ [][NextCamera]_vars

\* the zoom under scroll input, in either drag state
NextZoom ==
    \/ \E d \in ZoomScrollInputs : MouseWheel(d)
    \/ \E b \in BOOLEAN : MouseInput(b)
    \/ \E p \in ZoomCursorPositions : CursorMoved(p)

SpecZoom == Init /\ [][NextZoom]_vars

\* ---------------------------------------------------------------------
\* Properties
\* ---------------------------------------------------------------------

\* C1 (as stated): pitch stays strictly inside (-limit, limit).
C1_PitchStrict == -Limit < ctrl.pitch /\ ctrl.pitch < Limit

\* C1 (amended): pitch stays inside the closed interval [-limit, limit]; the
\* clamp makes both ends reachable.
C1_PitchClosed == -Limit <= ctrl.pitch /\ ctrl.pitch <= Limit

C1_Witness == ctrl.pitch = Limit \/ ctrl.pitch = -Limit

\* C2: from the initial distance 4.0, any sequence of scrolls keeps the
\* distance in [1, 50].
C2_RadiusRange == 1000 <= ctrl.radius /\ ctrl.radius <= 50000

C2_Witness == ctrl.radius = 1000 /\ event.kind = "MouseWheel"

\* distances after 0..20 scrolls of -5 lines from 4.0
C3_MinusFiveRun ==
    LET run[j \in 0..20] ==
            IF j = 0 THEN 4000 ELSE Zoom(run[j - 1], [kind |-> "Line", y |-> -5])
    IN run

\* C3: a scroll of s sets distance to clamp(distance * clamp(1 - 0.1 s, 0.2, 5),
\* 1, 50), keeps the drag state and requests a redraw; +1 line takes 4.0 to
\* 3.6; twenty scrolls of -5 lines from 4.0 reach 50 and stay there.
C3_ZoomStep ==
    /\ Zoom(4000, [kind |-> "Line", y |-> 1]) = 3600
    /\ \E k \in 1..20 : \A j \in k..20 : C3_MinusFiveRun[j] = 50000
    /\ [][event'.kind = "MouseWheel" =>
            LET s == IF event'.arg.kind = "Line" THEN event'.arg.y * 500
                     ELSE event'.arg.y * 10
                f == Clamp(5000 - s, 1000, 25000)
            IN /\ ctrl'.radius = Clamp((ctrl.radius * f + 2500) \div 5000, 1000, 50000)
               /\ ctrl'.dragging = ctrl.dragging
               /\ ctrl'.last = ctrl.last
               /\ event'.redraw]_vars

C3_Witness ==
    /\ event.kind = "MouseWheel"
    /\ event.arg = [kind |-> "Line", y |-> -50]
    /\ ctrl.dragging
    /\ ctrl.radius = 50000

\* C4: the surface configuration and the storage texture have the same
\* dimensions, equal to the last non-zero resize; both bind groups reference
\* the current texture, also in every submitted frame.
C4_BindingsCurrent ==
    /\ computeBg = tex.id
    /\ renderBg = tex.id
    /\ tex.w = config[1] /\ tex.h = config[2]
    /\ (event.kind = "Resized" /\ event.arg[1] # 0 /\ event.arg[2] # 0)
         => (config = event.arg /\ tex.w = event.arg[1] /\ tex.h = event.arg[2])
    /\ frame # None => (frame.computeTex = frame.currentTex /\ frame.renderTex = frame.currentTex)

C4_Witness == frame # None /\ frame.currentTex = 2

\* C5: a resize to a zero width or height changes no GPU resource, the
\* recorded size, the uniform block, or the controller.
C5_ZeroResizeNoop ==
    [][(event'.kind = "Resized" /\ (event'.arg[1] = 0 \/ event'.arg[2] = 0))
         => UNCHANGED <<size, config, tex, computeBg, renderBg, params, gen, ctrl>>]_vars

C5_Witness ==
    /\ event.kind = "Resized" /\ event.arg[1] = 0
    /\ gen > 0
    /\ ctrl.yaw # InitYaw

\* C6 (as stated): the configuration equals the recorded window size and is
\* never zero.
C6_ConfigIsSize == config = size /\ config[1] # 0 /\ config[2] # 0

\* C6 (amended): the configuration is never zero and equals the recorded
\* size with each zero component raised to 1 (the recorded size has a zero
\* component only before the first non-zero resize).
C6_ConfigIsSizeMax1 ==
    /\ config[1] = Max(size[1], 1) /\ config[2] = Max(size[2], 1)
    /\ config[1] >= 1 /\ config[2] >= 1

C6_Witness == size = <<0, 0>> /\ event.kind = "Resized"

\* C7: a cursor move while not dragging leaves the whole controller unchanged.
C7_IdleMoveNoop ==
    [][(event'.kind = "CursorMoved" /\ ~ctrl.dragging) => ctrl' = ctrl]_vars

C7_Witness ==
    /\ event.kind = "CursorMoved" /\ ~ctrl.dragging
    /\ ctrl.yaw # InitYaw

\* C8 (step rule): a cursor move while dragging stores the position; with a
\* previous sample it applies yaw -= dx*0.005, pitch -= dy*0.005 (clamped)
\* and requests a redraw, without one it leaves yaw and pitch alone.
C8_DragMove ==
    [][(event'.kind = "CursorMoved" /\ ctrl.dragging) =>
         /\ ctrl'.last = event'.arg
         /\ ctrl'.radius = ctrl.radius
         /\ ctrl.last # None =>
              /\ ctrl'.yaw = ctrl.yaw - (event'.arg[1] - ctrl.last[1]) * 500
              /\ ctrl'.pitch = Clamp(ctrl.pitch - (event'.arg[2] - ctrl.last[2]) * 500,
                                     -156294, 156294)
              /\ event'.redraw
         /\ ctrl.last = None =>
              /\ ctrl'.yaw = ctrl.yaw /\ ctrl'.pitch = ctrl.pitch
              /\ ~event'.redraw]_vars

\* C8 (as stated): the step rule above, and the first cursor move right
\* after a left-button press changes neither yaw nor pitch.
C8_DragMoveClaim ==
    /\ C8_DragMove
    /\ [][(event.kind = "MouseInput" /\ event.arg /\ event'.kind = "CursorMoved")
            => (ctrl'.yaw = ctrl.yaw /\ ctrl'.pitch = ctrl.pitch)]_vars

\* C9: press from idle enters dragging with no last cursor, release enters
\* idle with no last cursor; a last cursor is present only while dragging.
C9_LastOnlyWhileDragging ==
    /\ [](ctrl.last # None => ctrl.dragging)
    /\ [][event'.kind = "MouseInput" =>
            /\ (event'.arg /\ ~ctrl.dragging) => (ctrl'.dragging /\ ctrl'.last = None)
            /\ ~event'.arg => (~ctrl'.dragging /\ ctrl'.last = None)]_vars

C9_Witness ==
    /\ event.kind = "MouseInput" /\ ~event.arg
    /\ ctrl.yaw # InitYaw

\* ceil(n / 8) as the least k with 8k >= n
CeilDiv8(n) == CHOOSE k \in 0..n : k * 8 >= n /\ (k = 0 \/ (k - 1) * 8 < n)

\* C10: every submitted frame dispatches ceil(W/8) x ceil(H/8) x 1 workgroups
\* for the storage texture's (W, H).
C10_DispatchGrid ==
    frame # None => frame.grid = <<CeilDiv8(frame.imgW), CeilDiv8(frame.imgH), 1>>

\* C11: a redraw writes the uniform block from the current controller and
\* surface size, acquires the surface texture, then on success records the
\* compute dispatch and the display draw in one command buffer, submits it
\* once and presents; on failure nothing is submitted or presented: a lost
\* surface re-runs resize at the recorded size, out-of-memory exits the
\* loop, any other error skips the frame with nothing else changed.
C11_RedrawSequence ==
    [][event'.kind = "RedrawRequested" =>
         LET written == [yaw |-> ctrl.yaw, pitch |-> ctrl.pitch, radius |-> ctrl.radius,
                         width |-> config[1], height |-> config[2], time |-> 1]
             ops == event'.ops
             res == event'.arg
         IN /\ ctrl' = ctrl
            /\ ops[1] = "write_buffer" /\ ops[2] = "get_current_texture"
            /\ res = "Ok" =>
                 /\ ops = <<"write_buffer", "get_current_texture", "compute_pass",
                            "render_pass", "submit", "present">>
                 /\ params' = written
                 /\ frame'.computeTex = computeBg /\ frame'.renderTex = renderBg
                 /\ frame'.imgW = tex.w /\ frame'.imgH = tex.h
                 /\ UNCHANGED <<size, config, tex, computeBg, renderBg, gen, running>>
            /\ res # "Ok" =>
                 /\ Len(ops) = 2
                 /\ frame' = frame
            /\ (res = "Lost" /\ size[1] # 0 /\ size[2] # 0) =>
                 /\ size' = size /\ config' = size
                 /\ tex' = [id |-> gen + 1, w |-> size[1], h |-> size[2]]
                 /\ computeBg' = gen + 1 /\ renderBg' = gen + 1 /\ gen' = gen + 1
                 /\ params' = [written EXCEPT !.width = size[1], !.height = size[2],
                                              !.time = 0]
                 /\ running'
            /\ (res = "Lost" /\ (size[1] = 0 \/ size[2] = 0)) =>
                 /\ params' = written
                 /\ UNCHANGED <<size, config, tex, computeBg, renderBg, gen, running>>
            /\ res = "OutOfMemory" =>
                 /\ ~running'
                 /\ params' = written
                 /\ UNCHANGED <<size, config, tex, computeBg, renderBg, gen>>
            /\ res = "Timeout" =>
                 /\ running'
                 /\ params' = written
                 /\ UNCHANGED <<size, config, tex, computeBg, renderBg, gen>>]_vars

C11_Witness ==
    /\ event.kind = "RedrawRequested" /\ event.arg = "Lost"
    /\ size[1] # 0 /\ gen > 0 /\ params.time = 0

====
